---- MODULE Spec2Model ----
(***************************************************************************)
(* Model of the Filane pane engine (src/src/pane.rs) and of the listing,   *)
(* search and diff primitives of src/src/filesystem.rs.                    *)
(*                                                                         *)
(* Strings are sequences of character codes so that to_lowercase() and the *)
(* lexicographic comparison of names are computed, not assumed.  A path is *)
(* the sequence of its components below the filesystem root; the root is   *)
(* the empty sequence.  Option<T> is a sequence of length 0 (None) or 1.   *)
(***************************************************************************)
EXTENDS Integers, Sequences, FiniteSets, TLC

(* ---------------------------- bounds ----------------------------------- *)

\* Longest history the general specification lets navigate_to build.
MaxHistory == 2

\* Longest run of consecutive extending cursor moves.
MaxRun == 4

\* Most children of a directory handed to read_directory.
MaxChildren == 3

\* Most bytes of a file handed to compare_files.
MaxBytes == 3

\* Most lines of a file handed to compute_diff, and most lines of a long
\* file drawn from a two-line alphabet.
MaxLines == 3

MaxLongLines == 7

(* ------------------------ program constants ---------------------------- *)

\* pane.rs:221  "Limit history to 50 items"
HistoryLimit == 50

\* filesystem.rs:679  "let look_ahead = 5;"
LookAhead == 5

(* ------------------------------ names ---------------------------------- *)

DotDot == <<46, 46>>                 \* ".."
DotGit == <<46, 103, 105, 116>>      \* ".git"
n_a    == <<97>>                     \* "a"
n_B    == <<66>>                     \* "B"
n_b    == <<98>>                     \* "b"
n_c    == <<99>>                     \* "c"
n_d    == <<100>>                    \* "d"
n_E    == <<69>>                     \* "E"
n_f    == <<102>>                    \* "f"
n_x    == <<120>>                    \* "x"
n_z    == <<122>>                    \* "z"

None    == <<>>
Some(v) == <<v>>

(* ---------------------------- filesystem ------------------------------- *)

Root    == <<>>
DirA    == <<n_a>>
DirAD   == <<n_a, n_d>>
Missing == <<n_z>>                   \* a path that does not exist

Dirs == {Root, DirA, DirAD}

Child(nm, dir, sz, mt, meta) ==
  [name |-> nm, is_dir |-> dir, size |-> sz, modified |-> mt, meta_ok |-> meta]

\* The children of each directory in the order the OS hands them out
\* (fs::read_dir), which is not sorted.  "x" is a child whose metadata
\* cannot be read; "/a/d" is the work tree of a git repository.
DirEntries(p) ==
  CASE p = Root  -> << Child(n_c, FALSE, 2, 2, TRUE),
                       Child(n_a, TRUE,  4, 1, TRUE),
                       Child(n_B, FALSE, 4, 3, TRUE) >>
    [] p = DirA  -> << Child(n_E, FALSE, 7, 1, TRUE),
                       Child(n_x, FALSE, 1, 1, FALSE),
                       Child(n_d, TRUE,  4, 5, TRUE),
                       Child(n_b, FALSE, 4, 3, TRUE) >>
    [] p = DirAD -> << Child(n_f,    FALSE, 9, 2, TRUE),
                       Child(DotGit, FALSE, 1, 4, TRUE) >>
    [] OTHER     -> << >>

IsDir(p) == p \in Dirs

Exists(p) ==
  \/ p \in Dirs
  \/ /\ Len(p) > 0
     /\ SubSeq(p, 1, Len(p) - 1) \in Dirs
     /\ \E i \in 1..Len(DirEntries(SubSeq(p, 1, Len(p) - 1))) :
          DirEntries(SubSeq(p, 1, Len(p) - 1))[i].name = p[Len(p)]

\* Path::parent(): None for the filesystem root.
Parent(p) == IF p = Root THEN None ELSE Some(SubSeq(p, 1, Len(p) - 1))

HasParent(p) == Parent(p) # None

\* Outcomes fs::read_dir(path) can have: a directory that exists can still
\* fail to open (permissions, unmounted volume); anything else always fails.
ReadOutcomes(p) == IF IsDir(p) THEN {TRUE, FALSE} ELSE {FALSE}

(* ------------------------------ strings -------------------------------- *)

ToLowerChar(c) == IF c >= 65 /\ c <= 90 THEN c + 32 ELSE c

ToLowercase(s) == [i \in 1..Len(s) |-> ToLowerChar(s[i])]

\* Ord::cmp on strings: -1 Less, 0 Equal, 1 Greater.
RECURSIVE StrCmp(_, _)
StrCmp(a, b) ==
  IF Len(a) = 0 /\ Len(b) = 0 THEN 0
  ELSE IF Len(a) = 0 THEN -1
  ELSE IF Len(b) = 0 THEN 1
  ELSE IF Head(a) < Head(b) THEN -1
  ELSE IF Head(a) > Head(b) THEN 1
  ELSE StrCmp(Tail(a), Tail(b))

NumCmp(a, b) == IF a < b THEN -1 ELSE IF a > b THEN 1 ELSE 0

(* --------------------------- directory listing ------------------------- *)

ParentDir ==
  [name |-> DotDot, path |-> <<DotDot>>, is_dir |-> TRUE, size |-> 0,
   modified |-> 0, git_status |-> "None"]

FromEntry(dir, c) ==
  [name |-> c.name, path |-> Append(dir, c.name), is_dir |-> c.is_dir,
   size |-> c.size, modified |-> c.modified, git_status |-> "None"]

\* Directories first, then name, upper case before lower case.
DirsFirstByNameCaseSensitive(a, b) ==
  IF a.is_dir /\ ~b.is_dir THEN -1
  ELSE IF ~a.is_dir /\ b.is_dir THEN 1
  ELSE StrCmp(a.name, b.name)

\* Directories first, then case-insensitive name.
DirsFirstByName(a, b) ==
  IF a.is_dir /\ ~b.is_dir THEN -1
  ELSE IF ~a.is_dir /\ b.is_dir THEN 1
  ELSE StrCmp(ToLowercase(a.name), ToLowercase(b.name))

\* A comparator that puts directories first under every sort key.
SortCompareDirsFirst(a, b, by, order) ==
  LET ordering == IF a.is_dir /\ ~b.is_dir THEN -1
                  ELSE IF ~a.is_dir /\ b.is_dir THEN 1
                  ELSE CASE by = "Name" -> StrCmp(ToLowercase(a.name), ToLowercase(b.name))
                         [] by = "Size" -> NumCmp(a.size, b.size)
                         [] by = "Date" -> NumCmp(a.modified, b.modified)
  IN IF order = "Ascending" THEN ordering ELSE 0 - ordering

\* The comparator of Pane::apply_sort.
SortCompare(a, b, by, order) ==
  LET ordering == CASE by = "Name" -> DirsFirstByName(a, b)
                    [] by = "Size" -> NumCmp(a.size, b.size)
                    [] by = "Date" -> NumCmp(a.modified, b.modified)
  IN IF order = "Ascending" THEN ordering ELSE 0 - ordering

\* slice::sort_by is a stable sort: x goes after the last element that does
\* not compare Greater than it.
InsertStable(sorted, x, by, order) ==
  LET le == {i \in 1..Len(sorted) : SortCompare(sorted[i], x, by, order) <= 0}
      k  == IF le = {} THEN 0 ELSE CHOOSE i \in le : \A j \in le : j <= i
  IN SubSeq(sorted, 1, k) \o <<x>> \o SubSeq(sorted, k + 1, Len(sorted))

RECURSIVE StableSort(_, _, _)
StableSort(s, by, order) ==
  IF Len(s) = 0 THEN << >>
  ELSE InsertStable(StableSort(SubSeq(s, 1, Len(s) - 1), by, order),
                    s[Len(s)], by, order)

RECURSIVE FilterMapEntries(_, _)
FilterMapEntries(dir, cs) ==
  IF Len(cs) = 0 THEN << >>
  ELSE IF Head(cs).meta_ok
       THEN <<FromEntry(dir, Head(cs))>> \o FilterMapEntries(dir, Tail(cs))
       ELSE FilterMapEntries(dir, Tail(cs))

\* read_directory on a directory dir whose children are cs, when
\* fs::read_dir succeeds.
ListChildren(dir, cs) ==
  <<ParentDir>> \o StableSort(FilterMapEntries(dir, cs), "Name", "Ascending")

\* read_directory(path) when fs::read_dir(path) succeeds.
ReadDirectory(p) == ListChildren(p, DirEntries(p))

(* ------------------------------ git ------------------------------------ *)

RECURSIVE FindGitRepo(_)
FindGitRepo(p) ==
  IF Exists(Append(p, DotGit)) THEN Some(p)
  ELSE IF Parent(p) = None THEN None
  ELSE FindGitRepo(Parent(p)[1])

\* The status map git hands back for a repository: "f" is modified.
GitStatusMap(p) == IF p = Append(DirAD, n_f) THEN Some("Modified") ELSE None

ApplyGitStatus(its, repo) ==
  IF repo = None THEN its
  ELSE [i \in 1..Len(its) |->
          IF its[i].name = DotDot THEN its[i]
          ELSE [its[i] EXCEPT !.git_status =
                  IF GitStatusMap(its[i].path) # None
                  THEN GitStatusMap(its[i].path)[1] ELSE "Unmodified"]]

(* ------------------------------ search --------------------------------- *)

n_ab    == <<97, 98>>                \* "ab"
n_Ab    == <<65, 98>>                \* "Ab"
n_aB    == <<97, 66>>                \* "aB"
n_Bab   == <<66, 97, 98>>            \* "Bab"
n_k     == <<107>>                   \* "k"
n_n     == <<110>>                   \* "n"
n_q     == <<113>>                   \* "q"
n_u     == <<117>>                   \* "u"
DotB    == <<46, 98>>                \* ".b"
DotH    == <<46, 104>>               \* ".h"
a_star  == <<97, 42>>                \* "a*"

\* A directory entry the walk meets: content is the text of a file, None
\* when the file cannot be read as UTF-8.
Node(nm, dir, sz, mt, meta, content) ==
  [name |-> nm, is_dir |-> dir, size |-> sz, modified |-> mt,
   meta_ok |-> meta, content |-> content]

\* The tree searches run over, each directory's children in the order
\* fs::read_dir hands them out.  "u" is a child whose metadata cannot be
\* read, "B" a file that is not valid UTF-8, ".b" and ".h" are hidden.
Top    == << >>
TAb    == <<n_Ab>>
TAbN   == <<n_Ab, n_n>>
TAbNK  == <<n_Ab, n_n, n_k>>
TAbNKa == <<n_Ab, n_n, n_k, n_aB>>
TAbH   == <<n_Ab, DotH>>
TQ     == <<n_q>>
TFile  == <<n_ab>>

TreeDirs == {Top, TAb, TAbN, TAbNK, TAbNKa, TAbH, TQ}

TreeEntries(p) ==
  CASE p = Top    -> << Node(n_ab, FALSE, 5, 6, TRUE,  Some(n_aB)),
                        Node(n_Ab, TRUE,  4, 2, TRUE,  None),
                        Node(DotB, FALSE, 2, 3, TRUE,  Some(n_ab)),
                        Node(n_u,  FALSE, 3, 3, FALSE, Some(n_ab)),
                        Node(n_B,  FALSE, 1, 1, TRUE,  None),
                        Node(n_q,  TRUE,  4, 4, TRUE,  None) >>
    [] p = TAb    -> << Node(n_n,  TRUE,  4, 5, TRUE,  None),
                        Node(DotH, TRUE,  4, 3, TRUE,  None) >>
    [] p = TAbN   -> << Node(n_k,  TRUE,  4, 1, TRUE,  None) >>
    [] p = TAbNK  -> << Node(n_aB, TRUE,  4, 3, TRUE,  None) >>
    [] p = TAbNKa -> << Node(n_b,  FALSE, 3, 4, TRUE,  Some(n_ab)) >>
    [] p = TAbH   -> << Node(n_ab, FALSE, 2, 2, TRUE,  Some(n_b)) >>
    [] p = TQ     -> << Node(n_b,  FALSE, 6, 2, TRUE,  Some(n_Bab)) >>
    [] OTHER      -> << >>

\* Path::is_dir()
TreeIsDir(p) == p \in TreeDirs

\* SearchCriteria::default(); the search starts at the working directory.
DefaultCriteria ==
  [search_path |-> Top, filename_pattern |-> << >>, content_pattern |-> << >>,
   min_size |-> None, max_size |-> None,
   modified_after |-> None, modified_before |-> None,
   file_type |-> "All", case_sensitive |-> FALSE, include_hidden |-> FALSE]

\* str::starts_with('.')
StartsWithDot(s) == Len(s) > 0 /\ s[1] = 46

\* str::contains(pat)
Contains(s, pat) ==
  \E i \in 1..(Len(s) - Len(pat) + 1) : SubSeq(s, i, i + Len(pat) - 1) = pat

\* The filename test that always compares case-sensitively.
NameMatchesExactCase(name, pat, cs) == Contains(name, pat)

\* The filename test of search_recursive for a non-empty pattern.
NameMatches(name, pat, cs) ==
  IF cs THEN Contains(name, pat)
  ELSE Contains(ToLowercase(name), ToLowercase(pat))

\* search_file_content that takes an unreadable file for a match.
SearchFileContentLenient(content, pat, cs) ==
  IF content = None THEN TRUE
  ELSE IF cs THEN Contains(content[1], pat)
  ELSE Contains(ToLowercase(content[1]), ToLowercase(pat))

\* search_file_content on a file with the given content.
SearchFileContent(content, pat, cs) ==
  IF content = None THEN FALSE
  ELSE IF cs THEN Contains(content[1], pat)
  ELSE Contains(ToLowercase(content[1]), ToLowercase(pat))

\* The hidden-file check that lets hidden entries through.
SkipHiddenNever(c, name) == FALSE

\* The hidden-file check of search_recursive.
SkipHidden(c, name) == ~c.include_hidden /\ StartsWithDot(name)

\* The size and time bounds with the lower bounds exclusive.
OutOfBoundsStrict(c, size, modified) ==
  \/ c.min_size # None /\ size <= c.min_size[1]
  \/ c.max_size # None /\ size > c.max_size[1]
  \/ c.modified_after # None /\ modified <= c.modified_after[1]
  \/ c.modified_before # None /\ modified > c.modified_before[1]

\* The size and time bounds of search_recursive exclude the entry.
OutOfBounds(c, size, modified) ==
  \/ c.min_size # None /\ size < c.min_size[1]
  \/ c.max_size # None /\ size > c.max_size[1]
  \/ c.modified_after # None /\ modified < c.modified_after[1]
  \/ c.modified_before # None /\ modified > c.modified_before[1]

\* The FileItem search_recursive pushes for an entry.
SearchItem(path, e) ==
  [name |-> e.name, path |-> Append(path, e.name), is_dir |-> e.is_dir,
   size |-> e.size, modified |-> e.modified, git_status |-> "None"]

\* The results come out with a directory after its subtree.
PushOrderPost(item, sub) == sub \o <<item>>

\* A matched entry is pushed before its subtree is walked.
PushOrder(item, sub) == <<item>> \o sub

\* An excluded directory is not walked.
ExcludedPruned(sub) == << >>

\* What an entry excluded by a filter adds to the results: sub is the
\* outcome of walking it when it is a directory, nothing otherwise.
Excluded(sub) == sub

RECURSIVE SearchRecursive(_, _, _)
RECURSIVE SearchEntry(_, _, _, _)
RECURSIVE SearchEntries(_, _, _, _)
RECURSIVE SearchEntriesAbort(_, _, _, _)

\* A failed metadata read ends the walk of the directory.
SearchEntriesAbort(path, es, c, unreadable) ==
  IF Len(es) = 0 THEN << >>
  ELSE IF ~Head(es).meta_ok THEN << >>
       ELSE SearchEntry(path, Head(es), c, unreadable)
              \o SearchEntriesAbort(path, Tail(es), c, unreadable)

\* The loop of search_recursive over the entries es of the directory path.
SearchEntries(path, es, c, unreadable) ==
  IF Len(es) = 0 THEN << >>
  ELSE SearchEntry(path, Head(es), c, unreadable)
         \o SearchEntries(path, Tail(es), c, unreadable)

\* search_recursive(path, criteria, results): what the call appends to
\* results when the directories in unreadable cannot be opened.
SearchRecursive(path, c, unreadable) ==
  IF ~TreeIsDir(path) THEN << >>
  ELSE IF path \in unreadable THEN << >>
  ELSE SearchEntries(path, TreeEntries(path), c, unreadable)

\* One iteration of the loop, for the entry e of the directory path.
SearchEntry(path, e, c, unreadable) ==
  LET sub == IF e.is_dir
             THEN SearchRecursive(Append(path, e.name), c, unreadable)
             ELSE << >>
  IN IF SkipHidden(c, e.name) THEN << >>
     ELSE IF ~e.meta_ok THEN << >>
     ELSE IF c.file_type = "Files" /\ e.is_dir THEN Excluded(sub)
     ELSE IF c.file_type = "Directories" /\ ~e.is_dir THEN << >>
     ELSE IF Len(c.filename_pattern) # 0
               /\ ~NameMatches(e.name, c.filename_pattern, c.case_sensitive)
          THEN Excluded(sub)
     ELSE IF OutOfBounds(c, e.size, e.modified) THEN Excluded(sub)
     ELSE IF Len(c.content_pattern) # 0 /\ ~e.is_dir
               /\ ~SearchFileContent(e.content, c.content_pattern, c.case_sensitive)
          THEN << >>
     ELSE PushOrder(SearchItem(path, e), sub)

(* ------------------------------- diff ---------------------------------- *)

\* A DiffLine; String::new() is the empty string.
DiffLine(type, lnum, rnum, lcontent, rcontent) ==
  [line_type |-> type, left_line_num |-> lnum, right_line_num |-> rnum,
   left_content |-> lcontent, right_content |-> rcontent]

RECURSIVE FindResync(_, _, _, _, _)
RECURSIVE FindResyncAddedFirst(_, _, _, _, _)
RECURSIVE FindResyncWide(_, _, _, _, _)

\* The look-ahead switched off: no resync is ever found.
FindResyncNone(l, r, li, ri, i) == [side |-> "none", d |-> 0]

\* The look-ahead reaching one line further than look_ahead.
FindResyncWide(l, r, li, ri, i) ==
  IF i > LookAhead + 1 THEN [side |-> "none", d |-> 0]
  ELSE IF li + i < Len(l) /\ l[li + i + 1] = r[ri + 1]
       THEN [side |-> "removed", d |-> i]
  ELSE IF ri + i < Len(r) /\ l[li + 1] = r[ri + i + 1]
       THEN [side |-> "added", d |-> i]
  ELSE FindResyncWide(l, r, li, ri, i + 1)

\* The look-ahead with the added-side check ahead of the removed-side one.
FindResyncAddedFirst(l, r, li, ri, i) ==
  IF i > LookAhead THEN [side |-> "none", d |-> 0]
  ELSE IF ri + i < Len(r) /\ l[li + 1] = r[ri + i + 1]
       THEN [side |-> "added", d |-> i]
  ELSE IF li + i < Len(l) /\ l[li + i + 1] = r[ri + 1]
       THEN [side |-> "removed", d |-> i]
  ELSE FindResyncAddedFirst(l, r, li, ri, i + 1)

\* The look-ahead loop of compute_diff from distance i on, at the 0-based
\* positions li and ri: which check hit first and at what distance.
FindResync(l, r, li, ri, i) ==
  IF i > LookAhead THEN [side |-> "none", d |-> 0]
  ELSE IF li + i < Len(l) /\ l[li + i + 1] = r[ri + 1]
       THEN [side |-> "removed", d |-> i]
  ELSE IF ri + i < Len(r) /\ l[li + 1] = r[ri + i + 1]
       THEN [side |-> "added", d |-> i]
  ELSE FindResync(l, r, li, ri, i + 1)

\* The Removed lines all numbered as the first one.
RemovedRunSameNumber(l, li, d) ==
  [k \in 1..d |-> DiffLine("Removed", Some(li + 1), None, l[li + k], << >>)]

\* The d Removed lines pushed from the 0-based position li on.
RemovedRun(l, li, d) ==
  [k \in 1..d |-> DiffLine("Removed", Some(li + k), None, l[li + k], << >>)]

\* The d Added lines pushed from the 0-based position ri on.
AddedRun(r, ri, d) ==
  [k \in 1..d |-> DiffLine("Added", None, Some(ri + k), << >>, r[ri + k])]

\* A tally that counts a Modified line on both sides as well.
TallyModifiedTwice(diff_lines, type) ==
  Cardinality({ i \in 1..Len(diff_lines) :
                  \/ diff_lines[i].line_type = type
                  \/ diff_lines[i].line_type = "Modified"
                       /\ type \in {"Added", "Removed"} })

\* The tally loop of compare_text_files: the lines of one type.
RECURSIVE Tally(_, _)
Tally(diff_lines, type) ==
  IF Len(diff_lines) = 0 THEN 0
  ELSE (IF Head(diff_lines).line_type = type THEN 1 ELSE 0)
         + Tally(Tail(diff_lines), type)

\* compute_diff(left_lines, right_lines) from the positions li and ri on.
RECURSIVE ComputeDiffFrom(_, _, _, _)
ComputeDiffFrom(l, r, li, ri) ==
  IF li >= Len(l) /\ ri >= Len(r) THEN << >>
  ELSE IF li >= Len(l)
       THEN <<DiffLine("Added", None, Some(ri + 1), << >>, r[ri + 1])>>
              \o ComputeDiffFrom(l, r, li, ri + 1)
  ELSE IF ri >= Len(r)
       THEN <<DiffLine("Removed", Some(li + 1), None, l[li + 1], << >>)>>
              \o ComputeDiffFrom(l, r, li + 1, ri)
  ELSE IF l[li + 1] = r[ri + 1]
       THEN <<DiffLine("Equal", Some(li + 1), Some(ri + 1), l[li + 1], r[ri + 1])>>
              \o ComputeDiffFrom(l, r, li + 1, ri + 1)
  ELSE LET found == FindResync(l, r, li, ri, 1)
       IN CASE found.side = "removed" ->
                 RemovedRun(l, li, found.d) \o ComputeDiffFrom(l, r, li + found.d, ri)
            [] found.side = "added" ->
                 AddedRun(r, ri, found.d) \o ComputeDiffFrom(l, r, li, ri + found.d)
            [] OTHER ->
                 <<DiffLine("Modified", Some(li + 1), Some(ri + 1), l[li + 1], r[ri + 1])>>
                   \o ComputeDiffFrom(l, r, li + 1, ri + 1)

ComputeDiff(l, r) == ComputeDiffFrom(l, r, 0, 0)

(* ------------------------------ compare -------------------------------- *)

LF == 10                             \* "\n"
CR == 13                             \* "\r"

\* What a path handed to compare_files names.
MissingFile     == [kind |-> "missing"]
Directory       == [kind |-> "dir"]
RegularFile(bs) == [kind |-> "file", bytes |-> bs]

\* The index of the first "\n" in bs, 0 when there is none.
RECURSIVE FirstNewline(_, _)
FirstNewline(bs, i) ==
  IF i > Len(bs) THEN 0
  ELSE IF bs[i] = LF THEN i
  ELSE FirstNewline(bs, i + 1)

\* One line as BufRead::lines yields it: the "\n" that ended it is dropped
\* and a "\r" right before that "\n" too.
StripCR(line) ==
  IF Len(line) > 0 /\ line[Len(line)] = CR
  THEN SubSeq(line, 1, Len(line) - 1) ELSE line

\* BufReader::lines() over the bytes of a file, collected: a last line
\* without "\n" is kept as it is, nothing follows a final "\n".
RECURSIVE SplitLines(_)
SplitLines(bs) ==
  IF Len(bs) = 0 THEN << >>
  ELSE LET k == FirstNewline(bs, 1)
       IN IF k = 0 THEN <<bs>>
          ELSE <<StripCR(SubSeq(bs, 1, k - 1))>>
                 \o SplitLines(SubSeq(bs, k + 1, Len(bs)))

\* A FileComparison.
FileComparison(identical, diff_lines, left_only, right_only, modified, equal) ==
  [are_identical |-> identical, diff_lines |-> diff_lines,
   left_only_lines |-> left_only, right_only_lines |-> right_only,
   modified_lines |-> modified, equal_lines |-> equal]

Ok(v)  == [ok |-> TRUE, value |-> v]
Err(e) == [ok |-> FALSE, error |-> e]

\* compare_text_files on the bytes of two files that can be read.
CompareTextFiles(lbytes, rbytes) ==
  LET diff_lines == ComputeDiff(SplitLines(lbytes), SplitLines(rbytes))
      left_only  == Tally(diff_lines, "Removed")
      right_only == Tally(diff_lines, "Added")
      modified   == Tally(diff_lines, "Modified")
      equal      == Tally(diff_lines, "Equal")
  IN Ok(FileComparison(left_only = 0 /\ right_only = 0 /\ modified = 0,
                       diff_lines, left_only, right_only, modified, equal))

\* compare_files without the fast path for byte-identical files.
CompareFilesNoFastPath(lf, rf) ==
  IF lf.kind = "missing" \/ rf.kind = "missing" THEN Err("io")
  ELSE IF lf.kind = "dir" \/ rf.kind = "dir"
       THEN Err("Cannot compare directories")
  ELSE CompareTextFiles(lf.bytes, rf.bytes)

\* compare_files(left_path, right_path) when the paths name lf and rf.
CompareFilesResult(lf, rf) ==
  IF lf.kind = "missing" THEN Err("io")
  ELSE IF rf.kind = "missing" THEN Err("io")
  ELSE IF lf.kind = "dir" \/ rf.kind = "dir"
       THEN Err("Cannot compare directories")
  ELSE IF Len(lf.bytes) # Len(rf.bytes)
       THEN CompareTextFiles(lf.bytes, rf.bytes)
  ELSE IF lf.bytes = rf.bytes
       THEN Ok(FileComparison(TRUE, << >>, 0, 0, 0, 0))
  ELSE CompareTextFiles(lf.bytes, rf.bytes)

(* ------------------------------ state ---------------------------------- *)

VARIABLES
  current_path, items, selected_index, scroll_offset, sort_by, sort_order,
  filter_text, history, history_index, git_repo_path, selected_items,
  selection_anchor,
  last,       \* the most recent call: [op, arg, ok, dropped, evicted, info]
  trail,      \* progress through navigate_to(A); navigate_to(B); navigate_back()
  criteria,   \* search_files: the SearchCriteria of the search
  results,    \* search_files: the matches found
  left_lines, right_lines,     \* compute_diff: the two files, line by line
  left_idx, right_idx, result, \* compute_diff: the loop's position and output
  left_file, right_file,       \* compare_files: what the two paths name
  comparison                   \* compare_files: what the call returned

paneVars == <<current_path, items, selected_index, scroll_offset, sort_by,
              sort_order, filter_text, history, history_index, git_repo_path,
              selected_items, selection_anchor>>

searchVars == <<criteria, results>>

diffVars == <<left_lines, right_lines, left_idx, right_idx, result>>

compareVars == <<left_file, right_file, comparison>>

libVars == <<searchVars, diffVars, compareVars>>

vars == <<current_path, items, selected_index, scroll_offset, sort_by,
          sort_order, filter_text, history, history_index, git_repo_path,
          selected_items, selection_anchor, last, trail, criteria, results,
          left_lines, right_lines, left_idx, right_idx, result,
          left_file, right_file, comparison>>

SortKeys == {"Name", "Size", "Date"}

(* ------------------------------ Pane ----------------------------------- *)

\* apply_sort without the special case for "..": every item is sorted.
ApplySortAll(its, by, order) == StableSort(its, by, order)

\* Pane::apply_sort on a list of items.
ApplySort(its, by, order) ==
  LET found == {i \in 1..Len(its) : its[i].name = DotDot}
  IN IF found = {} THEN its
     ELSE LET idx  == CHOOSE i \in found : \A j \in found : i <= j
              rest == SubSeq(its, 1, idx - 1) \o SubSeq(its, idx + 1, Len(its))
          IN <<its[idx]>> \o StableSort(rest, by, order)

\* The items a successful Pane::refresh stores.
RefreshedItems(p, repo, by, order) ==
  ApplySort(ApplyGitStatus(ReadDirectory(p), repo), by, order)

\* refresh without the clamp of the cursor.
ClampIndexNone(idx, its) == idx

\* The cursor after a successful Pane::refresh.
ClampIndex(idx, its) ==
  IF idx >= Len(its) /\ Len(its) # 0 THEN Len(its) - 1 ELSE idx

CanGoBack == history_index > 0

\* saturating_sub(1)
CanGoForward ==
  history_index < (IF Len(history) = 0 THEN 0 ELSE Len(history) - 1)

\* The record of a call: dropped counts the forward history entries a
\* successful navigate_to discarded, evicted tells that it evicted the oldest;
\* info holds what else is known of the call, by operation.
Call(op, arg, ok) ==
  [op |-> op, arg |-> arg, ok |-> ok, dropped |-> 0, evicted |-> FALSE,
   info |-> << >>]

NavCall(op, arg, ok) ==
  [op |-> op, arg |-> arg, ok |-> ok,
   dropped |-> IF ok THEN Len(history) - (history_index + 1) ELSE 0,
   evicted |-> ok /\ arg # history[history_index + 1]
                  /\ history_index + 2 > HistoryLimit,
   info |-> << >>]

\* refresh: clamped tells that the cursor was beyond the new listing.
RefreshCall(ok, its) ==
  [Call("refresh", current_path, ok) EXCEPT
     !.info = [clamped |-> ok /\ selected_index >= Len(its)]]

\* toggle_sort(key): before is <<sort_by, sort_order>> at the call, before2
\* the same one call earlier when that call was toggle_sort(key) too.
SortCall(key) ==
  [Call("toggle_sort", Root, TRUE) EXCEPT
     !.info = [key     |-> key,
               before  |-> <<sort_by, sort_order>>,
               before2 |-> IF last.op = "toggle_sort" /\ last.info.key = key
                           THEN last.info.before ELSE << >>]]

NoTrail == [stage |-> 0, a |-> Root]

\* stage 1: navigate_to(a) succeeded; stage 2: then navigate_to(b # a)
\* succeeded; stage 3: then navigate_back() succeeded.
TrailAfter(op, arg, ok) ==
  IF op = "navigate_to" /\ ok
  THEN IF trail.stage = 1 /\ trail.a # arg
       THEN [stage |-> 2, a |-> trail.a]
       ELSE [stage |-> 1, a |-> arg]
  ELSE IF op = "navigate_back" /\ ok /\ trail.stage = 2
       THEN [stage |-> 3, a |-> trail.a]
       ELSE NoTrail

\* Pane::new(path) for an existing directory.
NewPane ==
  /\ current_path \in Dirs
  /\ git_repo_path = FindGitRepo(current_path)
  /\ sort_by = "Name"
  /\ sort_order = "Ascending"
  /\ items = RefreshedItems(current_path, git_repo_path, sort_by, sort_order)
  /\ selected_index = 0
  /\ scroll_offset = 0
  /\ filter_text = ""
  /\ history = <<current_path>>
  /\ history_index = 0
  /\ selected_items = << >>
  /\ selection_anchor = None
  /\ last = Call("new", current_path, TRUE)
  /\ trail = NoTrail

\* Nothing has been searched yet.
NoSearch ==
  /\ criteria = DefaultCriteria
  /\ results = << >>

\* Nothing is being compared.
NoDiff ==
  /\ left_lines = << >>
  /\ right_lines = << >>
  /\ left_idx = 0
  /\ right_idx = 0
  /\ result = << >>

\* Nothing has been compared.
NoCompare ==
  /\ left_file = MissingFile
  /\ right_file = MissingFile
  /\ comparison = None

Init == NewPane /\ NoSearch /\ NoDiff /\ NoCompare

\* refresh storing the failed listing: the pane goes blank on an error.
RefreshBlanks ==
  \E ok \in ReadOutcomes(current_path) :
    /\ IF ok
       THEN LET its == RefreshedItems(current_path, git_repo_path, sort_by, sort_order)
            IN /\ items' = its
               /\ selected_index' = ClampIndex(selected_index, its)
       ELSE /\ items' = << >>
            /\ selected_index' = 0
    /\ UNCHANGED <<current_path, scroll_offset, sort_by, sort_order, filter_text,
                   history, history_index, git_repo_path, selected_items,
                   selection_anchor>>
    /\ last' = Call("refresh", current_path, ok)
    /\ trail' = TrailAfter("refresh", current_path, ok)
    /\ UNCHANGED libVars

\* Pane::refresh
Refresh ==
  \E ok \in ReadOutcomes(current_path) :
    /\ IF ok
       THEN LET its == RefreshedItems(current_path, git_repo_path, sort_by, sort_order)
            IN /\ items' = its
               /\ selected_index' = ClampIndex(selected_index, its)
       ELSE UNCHANGED <<items, selected_index>>
    /\ UNCHANGED <<current_path, scroll_offset, sort_by, sort_order, filter_text,
                   history, history_index, git_repo_path, selected_items,
                   selection_anchor>>
    /\ last' = RefreshCall(ok, RefreshedItems(current_path, git_repo_path,
                                               sort_by, sort_order))
    /\ trail' = TrailAfter("refresh", current_path, ok)
    /\ UNCHANGED libVars

\* History bookkeeping that never evicts.
PushHistoryNoEvict(h, idx, path) ==
  LET h1 == IF idx < Len(h) - 1 THEN SubSeq(h, 1, idx + 1) ELSE h
  IN IF Len(h1) = 0 \/ h1[Len(h1)] # path
     THEN <<Append(h1, path), Len(h1)>>
     ELSE <<h1, idx>>

\* History bookkeeping that keeps the forward entries.
PushHistoryKeepForward(h, idx, path) ==
  IF Len(h) = 0 \/ h[Len(h)] # path
  THEN LET h2 == Append(h, path)
       IN IF Len(h2) > HistoryLimit
          THEN <<Tail(h2), Len(Tail(h2)) - 1>>
          ELSE <<h2, Len(h2) - 1>>
  ELSE <<h, idx>>

\* History bookkeeping that leaves history_index alone after an eviction.
PushHistoryStaleIndex(h, idx, path) ==
  LET h1 == IF idx < Len(h) - 1 THEN SubSeq(h, 1, idx + 1) ELSE h
  IN IF Len(h1) = 0 \/ h1[Len(h1)] # path
     THEN LET h2 == Append(h1, path)
          IN IF Len(h2) > HistoryLimit
             THEN <<Tail(h2), Len(h2) - 1>>
             ELSE <<h2, Len(h2) - 1>>
     ELSE <<h1, idx>>

\* History bookkeeping that pushes the path whatever the last entry is.
PushHistoryAlways(h, idx, path) ==
  LET h1 == IF idx < Len(h) - 1 THEN SubSeq(h, 1, idx + 1) ELSE h
      h2 == Append(h1, path)
  IN IF Len(h2) > HistoryLimit
     THEN <<Tail(h2), Len(Tail(h2)) - 1>>
     ELSE <<h2, Len(h2) - 1>>

\* The history bookkeeping of Pane::navigate_to after a successful refresh:
\* <<history, history_index>>.
PushHistory(h, idx, path) ==
  LET h1 == IF idx < Len(h) - 1 THEN SubSeq(h, 1, idx + 1) ELSE h
  IN IF Len(h1) = 0 \/ h1[Len(h1)] # path
     THEN LET h2 == Append(h1, path)
          IN IF Len(h2) > HistoryLimit
             THEN <<Tail(h2), Len(Tail(h2)) - 1>>
             ELSE <<h2, Len(h2) - 1>>
     ELSE <<h1, idx>>

\* The body of Pane::navigate_to for one outcome of the listing.
NavigateToBody(path, ok) ==
  /\ current_path' = path
  /\ git_repo_path' = FindGitRepo(path)
  /\ IF ok
     THEN /\ items' = RefreshedItems(path, FindGitRepo(path), sort_by, sort_order)
          /\ selected_index' = 0
          /\ scroll_offset' = 0
          /\ history' = PushHistory(history, history_index, path)[1]
          /\ history_index' = PushHistory(history, history_index, path)[2]
     ELSE UNCHANGED <<items, selected_index, scroll_offset, history, history_index>>
  /\ UNCHANGED <<sort_by, sort_order, filter_text, selected_items, selection_anchor>>

\* Pane::navigate_to
NavigateTo(path) ==
  \E ok \in ReadOutcomes(path) :
    /\ NavigateToBody(path, ok)
    /\ last' = NavCall("navigate_to", path, ok)
    /\ trail' = TrailAfter("navigate_to", path, ok)
    /\ UNCHANGED libVars

\* navigate_back that steps back without listing the directory again.
NavigateBackStale ==
  IF CanGoBack
  THEN \E ok \in ReadOutcomes(history[(history_index - 1) + 1]) :
         /\ history_index' = history_index - 1
         /\ current_path' = history[(history_index - 1) + 1]
         /\ IF ok
            THEN /\ selected_index' = 0
                 /\ scroll_offset' = 0
            ELSE UNCHANGED <<selected_index, scroll_offset>>
         /\ UNCHANGED <<items, sort_by, sort_order, filter_text, history,
                        git_repo_path, selected_items, selection_anchor>>
         /\ last' = Call("navigate_back", Root, ok)
         /\ trail' = TrailAfter("navigate_back", Root, ok)
         /\ UNCHANGED libVars
  ELSE /\ UNCHANGED paneVars
       /\ last' = Call("navigate_back", Root, TRUE)
       /\ trail' = NoTrail
       /\ UNCHANGED libVars

\* navigate_back that resets cursor and scroll offset outside the guard.
NavigateBackResets ==
  IF CanGoBack
  THEN \E ok \in ReadOutcomes(history[(history_index - 1) + 1]) :
         /\ history_index' = history_index - 1
         /\ current_path' = history[(history_index - 1) + 1]
         /\ IF ok
            THEN /\ items' = RefreshedItems(history[(history_index - 1) + 1],
                                            git_repo_path, sort_by, sort_order)
                 /\ selected_index' = 0
                 /\ scroll_offset' = 0
            ELSE UNCHANGED <<items, selected_index, scroll_offset>>
         /\ UNCHANGED <<sort_by, sort_order, filter_text, history, git_repo_path,
                        selected_items, selection_anchor>>
         /\ last' = Call("navigate_back", Root, ok)
         /\ trail' = TrailAfter("navigate_back", Root, ok)
         /\ UNCHANGED libVars
  ELSE /\ selected_index' = 0
       /\ scroll_offset' = 0
       /\ UNCHANGED <<current_path, items, sort_by, sort_order, filter_text, history,
                      history_index, git_repo_path, selected_items, selection_anchor>>
       /\ last' = Call("navigate_back", Root, TRUE)
       /\ trail' = NoTrail
       /\ UNCHANGED libVars

\* Pane::navigate_back
NavigateBack ==
  IF CanGoBack
  THEN \E ok \in ReadOutcomes(history[(history_index - 1) + 1]) :
         /\ history_index' = history_index - 1
         /\ current_path' = history[(history_index - 1) + 1]
         /\ IF ok
            THEN /\ items' = RefreshedItems(history[(history_index - 1) + 1],
                                            git_repo_path, sort_by, sort_order)
                 /\ selected_index' = 0
                 /\ scroll_offset' = 0
            ELSE UNCHANGED <<items, selected_index, scroll_offset>>
         /\ UNCHANGED <<sort_by, sort_order, filter_text, history, git_repo_path,
                        selected_items, selection_anchor>>
         /\ last' = Call("navigate_back", Root, ok)
         /\ trail' = TrailAfter("navigate_back", Root, ok)
         /\ UNCHANGED libVars
  ELSE /\ UNCHANGED paneVars
       /\ last' = Call("navigate_back", Root, TRUE)
       /\ trail' = NoTrail
       /\ UNCHANGED libVars

\* Pane::navigate_forward
NavigateForward ==
  IF CanGoForward
  THEN \E ok \in ReadOutcomes(history[(history_index + 1) + 1]) :
         /\ history_index' = history_index + 1
         /\ current_path' = history[(history_index + 1) + 1]
         /\ IF ok
            THEN /\ items' = RefreshedItems(history[(history_index + 1) + 1],
                                            git_repo_path, sort_by, sort_order)
                 /\ selected_index' = 0
                 /\ scroll_offset' = 0
            ELSE UNCHANGED <<items, selected_index, scroll_offset>>
         /\ UNCHANGED <<sort_by, sort_order, filter_text, history, git_repo_path,
                        selected_items, selection_anchor>>
         /\ last' = Call("navigate_forward", Root, ok)
         /\ trail' = NoTrail
         /\ UNCHANGED libVars
  ELSE /\ UNCHANGED paneVars
       /\ last' = Call("navigate_forward", Root, TRUE)
       /\ trail' = NoTrail
       /\ UNCHANGED libVars

\* Path::canonicalize on a path that exists: "." and ".." components are
\* resolved (the model has no symbolic links).
RECURSIVE Normalize(_)
Normalize(p) ==
  IF Len(p) = 0 THEN << >>
  ELSE LET front == Normalize(SubSeq(p, 1, Len(p) - 1))
       IN IF p[Len(p)] = DotDot
          THEN (IF Len(front) = 0 THEN front ELSE SubSeq(front, 1, Len(front) - 1))
          ELSE Append(front, p[Len(p)])

CanonicalizeOutcomes(p) == IF Exists(p) THEN {TRUE, FALSE} ELSE {FALSE}

\* enter_directory resolving every entry, ".." included, by its own path.
EnterTargetOwnPath == items[selected_index + 1].path

\* The path Pane::enter_directory resolves for the item under the cursor.
EnterTarget ==
  LET item == items[selected_index + 1]
  IN IF item.name = DotDot
     THEN (IF Parent(current_path) = None THEN current_path
           ELSE Parent(current_path)[1])
     ELSE item.path

EnterNavigates == selected_index < Len(items) /\ items[selected_index + 1].is_dir

\* Pane::enter_directory
EnterDirectory ==
  IF EnterNavigates
  THEN \E canon \in CanonicalizeOutcomes(EnterTarget) :
         IF canon
         THEN \E ok \in ReadOutcomes(Normalize(EnterTarget)) :
                /\ NavigateToBody(Normalize(EnterTarget), ok)
                /\ last' = NavCall("enter_directory", Normalize(EnterTarget), ok)
                /\ trail' = TrailAfter("navigate_to", Normalize(EnterTarget), ok)
                /\ UNCHANGED libVars
         ELSE /\ UNCHANGED paneVars
              /\ last' = Call("enter_directory", EnterTarget, FALSE)
              /\ trail' = NoTrail
              /\ UNCHANGED libVars
  ELSE /\ UNCHANGED paneVars
       /\ last' = Call("enter_directory", Root, TRUE)
       /\ trail' = NoTrail
       /\ UNCHANGED libVars

\* toggle_sort that keeps the direction when the active column is clicked.
ToggleSortNoFlip(key) ==
  /\ IF sort_by = key
     THEN UNCHANGED <<sort_by, sort_order>>
     ELSE /\ sort_by' = key
          /\ sort_order' = "Ascending"
  /\ items' = ApplySort(items, sort_by', sort_order')
  /\ UNCHANGED <<current_path, selected_index, scroll_offset, filter_text, history,
                 history_index, git_repo_path, selected_items, selection_anchor>>
  /\ last' = SortCall(key)
  /\ trail' = NoTrail
  /\ UNCHANGED libVars

\* Pane::toggle_sort
ToggleSort(key) ==
  /\ IF sort_by = key
     THEN /\ sort_order' = (IF sort_order = "Ascending" THEN "Descending" ELSE "Ascending")
          /\ sort_by' = sort_by
     ELSE /\ sort_by' = key
          /\ sort_order' = "Ascending"
  /\ items' = ApplySort(items, sort_by', sort_order')
  /\ UNCHANGED <<current_path, selected_index, scroll_offset, filter_text, history,
                 history_index, git_repo_path, selected_items, selection_anchor>>
  /\ last' = SortCall(key)
  /\ trail' = NoTrail
  /\ UNCHANGED libVars

\* Pane::move_up
MoveUp ==
  /\ selected_index' = (IF selected_index > 0 THEN selected_index - 1 ELSE selected_index)
  /\ UNCHANGED <<current_path, items, scroll_offset, sort_by, sort_order, filter_text,
                 history, history_index, git_repo_path, selected_items,
                 selection_anchor>>
  /\ last' = Call("move_up", Root, TRUE)
  /\ trail' = NoTrail
  /\ UNCHANGED libVars

\* Pane::move_down
MoveDown ==
  /\ selected_index' =
       (IF selected_index < (IF Len(items) = 0 THEN 0 ELSE Len(items) - 1)
        THEN selected_index + 1 ELSE selected_index)
  /\ UNCHANGED <<current_path, items, scroll_offset, sort_by, sort_order, filter_text,
                 history, history_index, git_repo_path, selected_items,
                 selection_anchor>>
  /\ last' = Call("move_down", Root, TRUE)
  /\ trail' = NoTrail
  /\ UNCHANGED libVars

ExtendOps == {"move_up_with_selection", "move_down_with_selection"}

\* An extending move: start is the cursor at which the run of consecutive
\* extending moves began, fresh tells that no selection existed then, len
\* counts the calls of the run and all_down tells that all of them moved down.
ExtendCall(op) ==
  LET more == last.op \in ExtendOps
  IN [Call(op, Root, TRUE) EXCEPT
        !.info = [start    |-> IF more THEN last.info.start ELSE selected_index,
                  fresh    |-> IF more THEN last.info.fresh
                               ELSE selection_anchor = None /\ selected_items = << >>,
                  len      |-> IF more THEN last.info.len + 1 ELSE 1,
                  all_down |-> op = "move_down_with_selection"
                               /\ (more => last.info.all_down)]]

\* start..end, the end excluded
RangeHalfOpen(start, end) ==
  IF end <= start THEN << >> ELSE [k \in 1..(end - start) |-> start + k - 1]

\* start..=end as a list
RangeInclusive(start, end) ==
  IF end < start THEN << >> ELSE [k \in 1..(end - start + 1) |-> start + k - 1]

\* Pane::update_selection_range: the new selected_items.
UpdateSelectionRange(anchor, index, selected) ==
  IF anchor # None
  THEN LET start == IF anchor[1] < index THEN anchor[1] ELSE index
           end   == IF anchor[1] > index THEN anchor[1] ELSE index
       IN RangeInclusive(start, end)
  ELSE selected

\* Pane::move_up_with_selection
MoveUpWithSelection ==
  /\ selection_anchor' =
       (IF selection_anchor = None THEN Some(selected_index) ELSE selection_anchor)
  /\ IF selected_index > 0
     THEN /\ selected_index' = selected_index - 1
          /\ selected_items' =
               UpdateSelectionRange(selection_anchor', selected_index', selected_items)
     ELSE UNCHANGED <<selected_index, selected_items>>
  /\ UNCHANGED <<current_path, items, scroll_offset, sort_by, sort_order, filter_text,
                 history, history_index, git_repo_path>>
  /\ last' = ExtendCall("move_up_with_selection")
  /\ trail' = NoTrail
  /\ UNCHANGED libVars

\* Pane::move_down_with_selection
MoveDownWithSelection ==
  /\ selection_anchor' =
       (IF selection_anchor = None THEN Some(selected_index) ELSE selection_anchor)
  /\ IF selected_index < (IF Len(items) = 0 THEN 0 ELSE Len(items) - 1)
     THEN /\ selected_index' = selected_index + 1
          /\ selected_items' =
               UpdateSelectionRange(selection_anchor', selected_index', selected_items)
     ELSE UNCHANGED <<selected_index, selected_items>>
  /\ UNCHANGED <<current_path, items, scroll_offset, sort_by, sort_order, filter_text,
                 history, history_index, git_repo_path>>
  /\ last' = ExtendCall("move_down_with_selection")
  /\ trail' = NoTrail
  /\ UNCHANGED libVars

\* Pane::clear_selection
ClearSelection ==
  /\ selected_items' = << >>
  /\ selection_anchor' = None
  /\ UNCHANGED <<current_path, items, selected_index, scroll_offset, sort_by,
                 sort_order, filter_text, history, history_index, git_repo_path>>
  /\ last' = Call("clear_selection", Root, TRUE)
  /\ trail' = NoTrail
  /\ UNCHANGED libVars

\* get_selected_items that ignores the multi-selection.
GetSelectedItemsCursorOnly ==
  IF selected_index < Len(items) THEN <<items[selected_index + 1]>> ELSE << >>

\* Pane::get_selected_items
GetSelectedItems ==
  IF selected_items = << >>
  THEN (IF selected_index < Len(items) THEN <<items[selected_index + 1]>> ELSE << >>)
  ELSE LET RECURSIVE FilterMapGet(_)
           FilterMapGet(idxs) ==
             IF Len(idxs) = 0 THEN << >>
             ELSE IF Head(idxs) < Len(items)
                  THEN <<items[Head(idxs) + 1]>> \o FilterMapGet(Tail(idxs))
                  ELSE FilterMapGet(Tail(idxs))
       IN FilterMapGet(selected_items)

\* Pane::update_scroll
UpdateScroll(viewport_height) ==
  /\ scroll_offset' =
       (IF selected_index < scroll_offset THEN selected_index
        ELSE IF selected_index >= scroll_offset + viewport_height
             THEN selected_index - viewport_height + 1
             ELSE scroll_offset)
  /\ UNCHANGED <<current_path, items, selected_index, sort_by, sort_order,
                 filter_text, history, history_index, git_repo_path, selected_items,
                 selection_anchor>>
  /\ last' = Call("update_scroll", Root, TRUE)
  /\ trail' = NoTrail
  /\ UNCHANGED libVars

\* search_files(criteria) while the directories in unreadable cannot be
\* opened: search_recursive never returns an error, so neither does the call.
SearchFiles(unreadable) ==
  /\ results' = SearchRecursive(criteria.search_path, criteria, unreadable)
  /\ UNCHANGED <<paneVars, criteria, diffVars, compareVars>>
  /\ last' = [Call("search_files", criteria.search_path, TRUE) EXCEPT
                !.info = [unreadable |-> unreadable]]
  /\ trail' = NoTrail

\* compute_diff, one iteration of its loop per step.
DiffFrame ==
  /\ UNCHANGED <<paneVars, searchVars, left_lines, right_lines, compareVars>>
  /\ last' = Call("compute_diff", Root, TRUE)
  /\ trail' = NoTrail

\* The left file is used up: the next right line is Added.
DiffRightTail ==
  /\ left_idx < Len(left_lines) \/ right_idx < Len(right_lines)
  /\ left_idx >= Len(left_lines)
  /\ result' = Append(result, DiffLine("Added", None, Some(right_idx + 1),
                                        << >>, right_lines[right_idx + 1]))
  /\ right_idx' = right_idx + 1
  /\ left_idx' = left_idx
  /\ DiffFrame

\* The right file is used up: the next left line is Removed.
DiffLeftTail ==
  /\ left_idx < Len(left_lines)
  /\ right_idx >= Len(right_lines)
  /\ result' = Append(result, DiffLine("Removed", Some(left_idx + 1), None,
                                        left_lines[left_idx + 1], << >>))
  /\ left_idx' = left_idx + 1
  /\ right_idx' = right_idx
  /\ DiffFrame

\* Both lines are the same.
DiffEqual ==
  /\ left_idx < Len(left_lines)
  /\ right_idx < Len(right_lines)
  /\ left_lines[left_idx + 1] = right_lines[right_idx + 1]
  /\ result' = Append(result, DiffLine("Equal", Some(left_idx + 1),
                                        Some(right_idx + 1),
                                        left_lines[left_idx + 1],
                                        right_lines[right_idx + 1]))
  /\ left_idx' = left_idx + 1
  /\ right_idx' = right_idx + 1
  /\ DiffFrame

\* The differing pair reported as Modified without moving on.
DiffLookAheadStuck ==
  /\ left_idx < Len(left_lines)
  /\ right_idx < Len(right_lines)
  /\ left_lines[left_idx + 1] # right_lines[right_idx + 1]
  /\ result' = Append(result, DiffLine("Modified", Some(left_idx + 1),
                                        Some(right_idx + 1),
                                        left_lines[left_idx + 1],
                                        right_lines[right_idx + 1]))
  /\ UNCHANGED <<left_idx, right_idx>>
  /\ DiffFrame

\* The lines differ: look ahead for a resync, else the pair is Modified.
DiffLookAhead ==
  /\ left_idx < Len(left_lines)
  /\ right_idx < Len(right_lines)
  /\ left_lines[left_idx + 1] # right_lines[right_idx + 1]
  /\ LET found == FindResync(left_lines, right_lines, left_idx, right_idx, 1)
     IN CASE found.side = "removed" ->
               /\ result' = result \o RemovedRun(left_lines, left_idx, found.d)
               /\ left_idx' = left_idx + found.d
               /\ right_idx' = right_idx
          [] found.side = "added" ->
               /\ result' = result \o AddedRun(right_lines, right_idx, found.d)
               /\ right_idx' = right_idx + found.d
               /\ left_idx' = left_idx
          [] OTHER ->
               /\ result' = Append(result, DiffLine("Modified", Some(left_idx + 1),
                                                     Some(right_idx + 1),
                                                     left_lines[left_idx + 1],
                                                     right_lines[right_idx + 1]))
               /\ left_idx' = left_idx + 1
               /\ right_idx' = right_idx + 1
  /\ DiffFrame

\* compare_files(left_path, right_path)
CompareFiles ==
  /\ comparison' = CompareFilesResult(left_file, right_file)
  /\ UNCHANGED <<paneVars, searchVars, diffVars, left_file, right_file>>
  /\ last' = Call("compare_files", Root, comparison'.ok)
  /\ trail' = NoTrail

(* --------------------------- specifications ---------------------------- *)

\* The paths a front end hands to navigate_to.
NavPaths == Dirs \cup {Missing}

\* Viewport heights the front end reports.
ViewportHeights == {2}

\* navigate_to(path) keeps the history within MaxHistory entries.
HistoryRoom(path) ==
  path = history[history_index + 1] \/ history_index + 2 <= MaxHistory

\* Navigation, cursor moves and scrolling under the initial sort.
Next ==
  \/ Refresh
  \/ \E p \in NavPaths : HistoryRoom(p) /\ NavigateTo(p)
  \/ NavigateBack
  \/ NavigateForward
  \/ (EnterNavigates => HistoryRoom(Normalize(EnterTarget))) /\ EnterDirectory
  \/ MoveUp
  \/ MoveDown
  \/ \E h \in ViewportHeights : UpdateScroll(h)

Spec == Init /\ [][Next]_vars

\* Navigation with the sort key and direction toggled in between.
NextSort ==
  \/ Refresh
  \/ \E p \in NavPaths : HistoryRoom(p) /\ NavigateTo(p)
  \/ NavigateBack
  \/ NavigateForward
  \/ \E k \in SortKeys : ToggleSort(k)

SpecSort == Init /\ [][NextSort]_vars

\* The run of consecutive extending moves is shorter than MaxRun.
RunRoom == last.op \in ExtendOps => last.info.len < MaxRun

\* Cursor moves and multi-selection in a pane opened at the root, with
\* navigation, refreshes and the size column toggled.
InitSelect == Init /\ current_path = Root

NextSelect ==
  \/ Refresh
  \/ \E p \in NavPaths : HistoryRoom(p) /\ NavigateTo(p)
  \/ ToggleSort("Size")
  \/ MoveUp
  \/ MoveDown
  \/ RunRoom /\ MoveUpWithSelection
  \/ RunRoom /\ MoveDownWithSelection
  \/ ClearSelection

SpecSelect == InitSelect /\ [][NextSelect]_vars

\* Directory contents handed to read_directory: up to MaxChildren children
\* with distinct names out of ChildPool, in any order.
ChildPool ==
  { Child(n_a, TRUE,  4, 1, TRUE),  Child(n_B, TRUE,  4, 3, TRUE),
    Child(n_b, FALSE, 4, 3, TRUE),  Child(n_E, FALSE, 7, 1, TRUE),
    Child(n_c, FALSE, 2, 2, TRUE),  Child(n_x, FALSE, 1, 1, FALSE) }

ChildLists ==
  { cs \in UNION { [1..n -> ChildPool] : n \in 0..MaxChildren } :
      \A i, j \in 1..Len(cs) : i # j => cs[i].name # cs[j].name }

\* read_directory(dir) on a directory that holds the children cs.
ListDirectory(dir, cs) ==
  \E ok \in BOOLEAN :
    /\ UNCHANGED paneVars
    /\ last' = [Call("read_directory", dir, ok) EXCEPT
                  !.info = [children |-> cs,
                            result   |-> IF ok THEN ListChildren(dir, cs) ELSE << >>]]
    /\ trail' = NoTrail
    /\ UNCHANGED libVars

NextList == \E dir \in {Root, DirA} : \E cs \in ChildLists : ListDirectory(dir, cs)

SpecList == InitSelect /\ [][NextList]_vars

\* The criteria searches are run with.
SearchPaths == {Top, TAb, TFile, Missing}

NamePatterns == {<< >>, n_b, n_aB, a_star}

ContentPatterns == {<< >>, n_b, n_aB}

SizeBounds == {None, Some(3)}

TimeBounds == {None, Some(3)}

SearchInputs ==
  [search_path : SearchPaths, filename_pattern : NamePatterns,
   content_pattern : ContentPatterns,
   min_size : SizeBounds, max_size : SizeBounds,
   modified_after : TimeBounds, modified_before : TimeBounds,
   file_type : {"All", "Files", "Directories"},
   case_sensitive : BOOLEAN, include_hidden : BOOLEAN]

\* The directories that fail to open during one search: none or one.
UnreadableChoices == {{}, {Top}, {TAbN}, {TQ}}

\* One search per behaviour, with a pane that lists "/a" next to it.
InitSearch ==
  /\ NewPane
  /\ current_path = DirA
  /\ criteria \in SearchInputs
  /\ results = << >>
  /\ NoDiff
  /\ NoCompare

NextSearch ==
  \/ \E unreadable \in UnreadableChoices : SearchFiles(unreadable)
  \/ Refresh

SpecSearch == InitSearch /\ [][NextSearch]_vars

\* The files compute_diff is run on: two short files over three distinct
\* lines, or a short file against a long one over two distinct lines.
LineLists(lines, n) == UNION { [1..k -> lines] : k \in 0..n }

ShortFiles == LineLists({n_a, n_b, n_c}, MaxLines)

LongFiles == LineLists({n_a, n_b}, MaxLongLines)

\* A changed line that occurs in neither file elsewhere.
ExampleFiles == { << <<n_a, n_b, n_c>>, <<n_a, n_x, n_c>> >> }

DiffInputs ==
  (ShortFiles \X ShortFiles) \cup (LongFiles \X ShortFiles)
    \cup (ShortFiles \X LongFiles) \cup ExampleFiles

\* One comparison per behaviour.
InitDiff ==
  /\ NewPane
  /\ current_path = Root
  /\ NoSearch
  /\ \E files \in DiffInputs : left_lines = files[1] /\ right_lines = files[2]
  /\ left_idx = 0
  /\ right_idx = 0
  /\ result = << >>
  /\ NoCompare

NextDiff ==
  \/ DiffRightTail
  \/ DiffLeftTail
  \/ DiffEqual
  \/ DiffLookAhead

SpecDiff == InitDiff /\ [][NextDiff]_vars

\* compute_diff runs to completion: its loop is never left half way.
SpecDiffFair == SpecDiff /\ WF_vars(NextDiff)

\* What the two paths of a comparison name: nothing, a directory, or a
\* file of up to MaxBytes bytes out of "a", "b", "\n" and "\r".
FileBytes == UNION { [1..k -> {97, 98, LF, CR}] : k \in 0..MaxBytes }

FileObjects == {MissingFile, Directory} \cup { RegularFile(bs) : bs \in FileBytes }

\* One comparison per behaviour.
InitCompare ==
  /\ NewPane
  /\ current_path = Root
  /\ NoSearch
  /\ NoDiff
  /\ left_file \in FileObjects
  /\ right_file \in FileObjects
  /\ comparison = None

NextCompare == CompareFiles

SpecCompare == InitCompare /\ [][NextCompare]_vars

\* Navigation alone between two directories, up to the history limit.
HistPaths == {Root, DirA}

InitHist == Init /\ current_path \in HistPaths

NextHist ==
  \/ \E p \in HistPaths : NavigateTo(p)
  \/ NavigateBack
  \/ NavigateForward

SpecHist == InitHist /\ [][NextHist]_vars

TypeOK ==
  /\ current_path \in NavPaths
  /\ selected_index \in 0..4
  /\ scroll_offset \in 0..4
  /\ history_index \in 0..HistoryLimit
  /\ Len(history) >= 1

(* ------------------------------ claims --------------------------------- *)

\* C1: navigate_to is all-or-nothing: when the listing of the target fails,
\* current_path, history and history_index are what they were before the call.
C1_NavigateToAllOrNothing ==
  [][(last'.op = "navigate_to" /\ ~last'.ok) =>
       /\ current_path' = current_path
       /\ history' = history
       /\ history_index' = history_index]_vars

\* C2: in every reachable state history[history_index] is current_path.
C2_HistoryHeadIsCurrentPath ==
  /\ history_index < Len(history)
  /\ history[history_index + 1] = current_path

\* C3: refresh is transactional: when listing current_path fails, items and
\* the cursor are left exactly as they were.
C3_RefreshTransactional ==
  [][(last'.op = "refresh" /\ ~last'.ok) =>
       /\ items' = items
       /\ selected_index' = selected_index]_vars

\* A failed refresh of a pane that shows a listing with children.
C3_Witness ==
  /\ last.op = "refresh"
  /\ ~last.ok
  /\ Len(items) > 1
  /\ selected_index > 0

\* C4: navigate_back and navigate_forward preserve the prior state when the
\* listing of the history target fails.
C4_BackForwardPreserveOnFailure ==
  [][(last'.op \in {"navigate_back", "navigate_forward"} /\ ~last'.ok) =>
       /\ current_path' = current_path
       /\ history_index' = history_index
       /\ items' = items
       /\ selected_index' = selected_index]_vars

\* C5: history never holds more than 50 paths; a push onto a full history
\* evicts the oldest entry, keeps the order of the others and leaves
\* history_index at the pushed path, the new last entry.
C5_HistoryBounded ==
  [][/\ Len(history) <= HistoryLimit
     /\ Len(history') <= HistoryLimit
     /\ (/\ last'.op = "navigate_to"
         /\ last'.ok
         /\ history_index + 1 = HistoryLimit
         /\ last'.arg # history[history_index + 1])
        => /\ history' = Append(Tail(history), last'.arg)
           /\ history_index' = Len(history') - 1]_vars

\* A navigate_to that evicted the oldest entry of a full history.
C5_Witness ==
  /\ last.op = "navigate_to"
  /\ last.evicted
  /\ Len(history) = HistoryLimit
  /\ history_index = HistoryLimit - 1

\* C6: a successful navigate_to(path) puts the cursor at 0, leaves no forward
\* step, and appends path to the history cut at history_index unless path is
\* the entry at history_index, in which case nothing is appended.
C6_NavigateToSuccess ==
  [][(last'.op = "navigate_to" /\ last'.ok) =>
       LET kept == SubSeq(history, 1, history_index + 1)
       IN /\ selected_index' = 0
          /\ history_index' = Len(history') - 1
          /\ IF last'.arg = history[history_index + 1]
             THEN history' = kept
             ELSE history' = (IF Len(kept) = HistoryLimit
                              THEN Append(Tail(kept), last'.arg)
                              ELSE Append(kept, last'.arg))]_vars

\* A successful navigate_to that discarded forward history.
C6_Witness ==
  /\ last.op = "navigate_to"
  /\ last.ok
  /\ last.dropped > 0
  /\ history[Len(history)] = last.arg

\* An item without its version-control decoration.
StripVcs(its) == [i \in 1..Len(its) |-> [its[i] EXCEPT !.git_status = "None"]]

C8_BoundaryNoOp ==
  [][(\/ last'.op = "navigate_back" /\ history_index = 0
      \/ last'.op = "navigate_forward" /\ history_index = Len(history) - 1) =>
       /\ last'.ok
       /\ UNCHANGED paneVars]_vars

\* navigate_back returned at index 0 with the cursor and the scroll offset
\* away from 0 (a back step that lists a directory resets both).
C8_Witness ==
  /\ last.op = "navigate_back"
  /\ last.ok
  /\ history_index = 0
  /\ selected_index > 0
  /\ scroll_offset > 0

\* C9: after a successful refresh at the filesystem root, ".." is not among
\* the entries.
C9_NoSentinelAtRoot ==
  (last.op \in {"new", "refresh", "navigate_to"} /\ last.ok /\ ~HasParent(current_path))
    => \A i \in 1..Len(items) : items[i].name # DotDot

\* C10: whenever current_path has a parent, the first entry is the ".."
\* sentinel, after every refresh and every toggle_sort, whatever the sort.
C10_SentinelFirst ==
  HasParent(current_path) => (Len(items) >= 1 /\ items[1] = ParentDir)

\* A descending sort by size, under which ".." (size 0) would sort last.
C10_Witness ==
  /\ last.op = "toggle_sort"
  /\ sort_by = "Size"
  /\ sort_order = "Descending"
  /\ HasParent(current_path)
  /\ Len(items) > 2

\* C11: the cursor is a valid index into the entries (0 when there are none)
\* in every reachable state.
C11_CursorValid ==
  /\ selected_index >= 0
  /\ IF Len(items) = 0 THEN selected_index = 0 ELSE selected_index <= Len(items) - 1

\* A refresh found the cursor beyond the new listing and clamped it.
C11_Witness ==
  /\ last.op = "refresh"
  /\ last.info.clamped
  /\ selected_index = Len(items) - 1

\* C12: a plain cursor move (move_up, move_down) leaves no selection: no
\* selected indices and no anchor.
C12_MoveClearsSelection ==
  [][last'.op \in {"move_up", "move_down"} =>
       /\ selected_items' = << >>
       /\ selection_anchor' = None]_vars

\* C13: after every extending move there is an anchor, it is the cursor at
\* which the run began when no selection existed then, and the selected
\* indices are the inclusive span between anchor and cursor.
C13_ExtendSelectsSpan ==
  last.op \in ExtendOps =>
    /\ selection_anchor # None
    /\ (last.info.fresh => selection_anchor = Some(last.info.start))
    /\ selected_items =
         RangeInclusive(IF selection_anchor[1] < selected_index
                        THEN selection_anchor[1] ELSE selected_index,
                        IF selection_anchor[1] > selected_index
                        THEN selection_anchor[1] ELSE selected_index)

\* C14: from no selection at cursor c, k consecutive extending moves down
\* with c + k within the entries select exactly c, ..., c + k.
C14_ExtendDownRun ==
  (/\ last.op = "move_down_with_selection"
   /\ last.info.fresh
   /\ last.info.all_down
   /\ last.info.start + last.info.len <= Len(items) - 1)
  => /\ selected_items =
          [i \in 1..(last.info.len + 1) |-> last.info.start + i - 1]
     /\ selection_anchor = Some(last.info.start)
     /\ selected_index = last.info.start + last.info.len

\* Three extending moves down from cursor 0 selected 0..3.
C14_Witness ==
  /\ last.op = "move_down_with_selection"
  /\ last.info.fresh
  /\ last.info.all_down
  /\ last.info.start = 0
  /\ last.info.len = 3
  /\ selected_items = <<0, 1, 2, 3>>

\* C15: get_selected_items returns the entries at the indices the selection
\* covers when there is one, else the single entry under the cursor, and
\* nothing when there are no entries.
C15_SelectedEntries ==
  GetSelectedItems =
    IF Len(items) = 0 THEN << >>
    ELSE IF selected_items # << >>
         THEN LET lo == selected_items[1]
                  hi == selected_items[Len(selected_items)]
              IN SubSeq(items, lo + 1,
                        IF hi + 1 < Len(items) THEN hi + 1 ELSE Len(items))
         ELSE <<items[selected_index + 1]>>

\* A selection of several entries away from the top of the listing.
C15_Witness ==
  /\ Len(selected_items) >= 2
  /\ selected_items[1] > 0
  /\ selected_index # selected_items[1]

\* C16: under the Name key every directory precedes every file after the
\* sentinel in both directions, and among entries of one kind the
\* case-insensitive names ascend (Ascending) or descend (Descending).
C16_NameDirsFirst ==
  sort_by = "Name" =>
    \A i, j \in 2..Len(items) :
      i < j =>
        /\ items[i].is_dir \/ ~items[j].is_dir
        /\ items[i].is_dir = items[j].is_dir =>
             IF sort_order = "Ascending"
             THEN StrCmp(ToLowercase(items[i].name), ToLowercase(items[j].name)) <= 0
             ELSE StrCmp(ToLowercase(items[i].name), ToLowercase(items[j].name)) >= 0

FlipOrder(order) == IF order = "Ascending" THEN "Descending" ELSE "Ascending"

\* toggle_sort(key) flips the direction of the active key and selects any
\* other key in Ascending direction.
ToggleSortStep ==
  IF last'.info.key = sort_by
  THEN sort_by' = sort_by /\ sort_order' = FlipOrder(sort_order)
  ELSE sort_by' = last'.info.key /\ sort_order' = "Ascending"

\* C17 as stated: toggle_sort flips or selects, and two toggles of the same
\* key in a row return to the direction before the first of them.
C17_ToggleTwiceAnyKey ==
  [][last'.op = "toggle_sort" =>
       /\ ToggleSortStep
       /\ last'.info.before2 # << >> => sort_order' = last'.info.before2[2]]_vars

\* C17 amended: toggle_sort flips or selects, and two toggles in a row of the
\* key that was active before the first return to the direction before it.
C17_ToggleTwiceActiveKey ==
  [][last'.op = "toggle_sort" =>
       /\ ToggleSortStep
       /\ (last'.info.before2 # << >> /\ last'.info.before2[1] = last'.info.key)
            => /\ sort_order' = last'.info.before2[2]
               /\ sort_by' = last'.info.before2[1]]_vars

\* Name toggled twice from the initial sort is Name/Ascending again.
C17_Witness ==
  /\ last.op = "toggle_sort"
  /\ last.info.key = "Name"
  /\ last.info.before2 = <<"Name", "Ascending">>
  /\ sort_order = "Ascending"

\* C18: under the Size (Date) key the entries after the sentinel are ordered
\* by size (modification time) alone, non-decreasing when Ascending and
\* non-increasing when Descending.
C18_SizeDateOrder ==
  \A i, j \in 2..Len(items) :
    i < j =>
      /\ (sort_by = "Size" /\ sort_order = "Ascending") => items[i].size <= items[j].size
      /\ (sort_by = "Size" /\ sort_order = "Descending") => items[i].size >= items[j].size
      /\ (sort_by = "Date" /\ sort_order = "Ascending") =>
           items[i].modified <= items[j].modified
      /\ (sort_by = "Date" /\ sort_order = "Descending") =>
           items[i].modified >= items[j].modified

\* A size ordering with a file ahead of a directory and a directory ahead of
\* a file.
C18_Witness ==
  /\ sort_by = "Size"
  /\ last.op = "toggle_sort"
  /\ \E i, j, k \in 2..Len(items) :
       /\ i < j /\ j < k
       /\ ~items[i].is_dir /\ items[j].is_dir /\ ~items[k].is_dir

\* C19: enter_directory on an entry that is not a directory returns success
\* and changes nothing; on a directory it navigates to the entry's own path
\* and on ".." to the parent of current_path (at the root, which has no
\* parent, to the root itself).
C19_EnterSelected ==
  [][last'.op = "enter_directory" =>
       IF selected_index < Len(items) /\ items[selected_index + 1].is_dir
       THEN LET item   == items[selected_index + 1]
                target == IF item.name # DotDot THEN item.path
                          ELSE IF HasParent(current_path)
                               THEN Parent(current_path)[1] ELSE current_path
            IN /\ last'.arg = target
               /\ last'.ok => /\ current_path' = target
                              /\ history'[history_index' + 1] = target
                              /\ selected_index' = 0
                              /\ StripVcs(items') = StripVcs(ReadDirectory(target))
       ELSE /\ last'.ok
            /\ UNCHANGED paneVars]_vars

\* The pane entered the directory "d" listed in "/a".
C19_Witness ==
  /\ last.op = "enter_directory"
  /\ last.ok
  /\ last.arg = DirAD
  /\ current_path = DirAD
  /\ history[history_index + 1] = DirAD

\* C20: read_directory returns ".." first, then the children whose metadata
\* can be read, directories before files and each kind in ascending
\* case-insensitive name order.
C20_ListingOrder ==
  (last.op = "read_directory" /\ last.ok) =>
    LET r  == last.info.result
        cs == last.info.children
        readable == {k \in 1..Len(cs) : cs[k].meta_ok}
    IN /\ Len(r) = 1 + Cardinality(readable)
       /\ r[1] = ParentDir
       /\ {r[i] : i \in 2..Len(r)} = {FromEntry(last.arg, cs[k]) : k \in readable}
       /\ \A i, j \in 2..Len(r) :
            i < j =>
              /\ r[i].is_dir \/ ~r[j].is_dir
              /\ r[i].is_dir = r[j].is_dir =>
                   StrCmp(ToLowercase(r[i].name), ToLowercase(r[j].name)) <= 0

\* A listing of two directories and a file that the OS handed out file first.
C20_Witness ==
  /\ last.op = "read_directory"
  /\ last.ok
  /\ Len(last.info.result) = 4
  /\ ~last.info.children[1].is_dir
  /\ last.info.result[2].name = n_a
  /\ last.info.result[3].name = n_B
  /\ ~last.info.result[4].is_dir

\* ---- search: the tree as the claims about search_files see it ----

IsPrefix(p, q) == Len(p) <= Len(q) /\ SubSeq(q, 1, Len(p)) = p

\* The entry of the tree with path p (p is not Top).
NodeAt(p) ==
  LET es == TreeEntries(SubSeq(p, 1, Len(p) - 1))
  IN es[CHOOSE i \in 1..Len(es) : es[i].name = p[Len(p)]]

Searched == last.op = "search_files"

\* The search may look at the entry e: it is not hidden from it and its
\* metadata can be read.
Visible(e) ==
  e.meta_ok /\ (criteria.include_hidden \/ e.name[1] # 46)

\* The directory d is one the search has to walk: it is the start of the
\* search or lies below it, every directory on the way can be opened and is
\* visible. No filter takes part in this.
Walked(d) ==
  /\ TreeIsDir(criteria.search_path)
  /\ d \in TreeDirs
  /\ IsPrefix(criteria.search_path, d)
  /\ \A k \in Len(criteria.search_path)..Len(d) :
       SubSeq(d, 1, k) \notin last.info.unreadable
  /\ \A k \in (Len(criteria.search_path) + 1)..Len(d) :
       Visible(NodeAt(SubSeq(d, 1, k)))

PassType(e) ==
  \/ criteria.file_type = "All"
  \/ criteria.file_type = "Files" /\ ~e.is_dir
  \/ criteria.file_type = "Directories" /\ e.is_dir

PassName(e) ==
  \/ criteria.filename_pattern = << >>
  \/ /\ criteria.case_sensitive
     /\ Contains(e.name, criteria.filename_pattern)
  \/ /\ ~criteria.case_sensitive
     /\ Contains(ToLowercase(e.name), ToLowercase(criteria.filename_pattern))

InBounds(e) ==
  /\ criteria.min_size # None => e.size >= criteria.min_size[1]
  /\ criteria.max_size # None => e.size <= criteria.max_size[1]
  /\ criteria.modified_after # None => e.modified >= criteria.modified_after[1]
  /\ criteria.modified_before # None => e.modified <= criteria.modified_before[1]

PassContent(e) ==
  \/ criteria.content_pattern = << >>
  \/ e.is_dir
  \/ /\ e.content # None
     /\ IF criteria.case_sensitive
        THEN Contains(e.content[1], criteria.content_pattern)
        ELSE Contains(ToLowercase(e.content[1]),
                      ToLowercase(criteria.content_pattern))

Passes(e) == PassType(e) /\ PassName(e) /\ InBounds(e) /\ PassContent(e)

\* The entry e of the directory d is among the results.
Reported(d, e) ==
  \E i \in 1..Len(results) : results[i].path = Append(d, e.name)

EntriesOf(d) == { TreeEntries(d)[i] : i \in 1..Len(TreeEntries(d)) }

\* The directory d holds a child the search cannot use: one whose metadata
\* cannot be read or a subdirectory that cannot be opened.
HasFailingChild(d) ==
  \E e \in EntriesOf(d) :
    \/ ~e.meta_ok
    \/ e.is_dir /\ Append(d, e.name) \in last.info.unreadable

\* C21: a failure on one child never fails the whole operation: a listing
\* leaves out the children whose metadata cannot be read and holds all the
\* others, and a search that meets an unreadable child or subdirectory still
\* succeeds, reports nothing from them and reports every match among their
\* siblings.
C21_ChildFailureNotFatal ==
  /\ (last.op = "refresh" /\ last.ok) =>
       \A k \in 1..Len(DirEntries(current_path)) :
         LET c == DirEntries(current_path)[k]
         IN c.meta_ok <=>
              \E i \in 1..Len(items) : items[i].path = Append(current_path, c.name)
  /\ Searched =>
       /\ last.ok
       /\ \A d \in TreeDirs :
            (Walked(d) /\ HasFailingChild(d)) =>
              \A e \in EntriesOf(d) :
                /\ (Visible(e) /\ Passes(e)) => Reported(d, e)
                /\ ~e.meta_ok => ~Reported(d, e)
       /\ \A i \in 1..Len(results) :
            \A u \in last.info.unreadable :
              IsPrefix(criteria.search_path, u) =>
                ~(IsPrefix(u, results[i].path) /\ u # results[i].path)

\* A search from the top that could not open "q" nor read the metadata of
\* "u" and reported their siblings "ab" and "Ab".
C21_Witness ==
  /\ Searched
  /\ last.ok
  /\ criteria.search_path = Top
  /\ last.info.unreadable = {TQ}
  /\ \E i \in 1..Len(results) : results[i].path = <<n_ab>>
  /\ \E i \in 1..Len(results) : results[i].path = <<n_Ab>>
  /\ \E i \in 1..Len(results) : results[i].path = <<n_q>>

\* C22: search_files fails with an error when the top-level path cannot be
\* opened: it does not exist, is not a directory or cannot be read.
C22_TopLevelFailureIsError ==
  (Searched /\ ~(TreeIsDir(criteria.search_path)
                 /\ criteria.search_path \notin last.info.unreadable))
    => ~last.ok

\* The entry of the tree a result stands for.
ResultNode(i) == NodeAt(results[i].path)

\* C23: no filter prunes the walk: an entry that passes the criteria is
\* reported also when a directory between it and the start of the search is
\* excluded by the type filter, the filename test or the size and time
\* bounds, at whatever depth.
C23_FiltersNeverPrune ==
  Searched =>
    \A d \in TreeDirs :
      \A e \in EntriesOf(d) :
        ( /\ Walked(d)
          /\ Visible(e)
          /\ Passes(e)
          /\ \E k \in (Len(criteria.search_path) + 1)..Len(d) :
               ~Passes(NodeAt(SubSeq(d, 1, k))) )
          => Reported(d, e)

\* A search for directories named like "ab" that reports "Ab" and, three
\* levels further down below the non-matching "n" and "k", "aB", and nothing
\* else.
C23_Witness ==
  /\ Searched
  /\ criteria.file_type = "Directories"
  /\ criteria.filename_pattern = n_aB
  /\ ~criteria.case_sensitive
  /\ criteria.search_path = Top
  /\ Len(results) = 2
  /\ results[1].path = TAb
  /\ results[2].path = TAbNKa

ChildIndex(d, nm) ==
  CHOOSE i \in 1..Len(TreeEntries(d)) : TreeEntries(d)[i].name = nm

\* C26: the results are in depth-first pre-order: a directory comes before
\* every result of its subtree, the results of one subtree are contiguous,
\* and the children of a directory come in the order they were visited.
C26_PreOrder ==
  Searched =>
    \A i, j \in 1..Len(results) :
      i < j =>
        LET pi == results[i].path
            pj == results[j].path
        IN /\ ~IsPrefix(pj, pi)
           /\ \A k \in 1..Len(results) :
                j < k =>
                  \A n \in 1..Len(pi) :
                    IsPrefix(SubSeq(pi, 1, n), results[k].path)
                      => IsPrefix(SubSeq(pi, 1, n), pj)
           /\ \A n \in 1..Len(pi) :
                ( /\ Len(pj) >= n
                  /\ SubSeq(pi, 1, n - 1) = SubSeq(pj, 1, n - 1)
                  /\ pi[n] # pj[n] )
                  => ChildIndex(SubSeq(pi, 1, n - 1), pi[n])
                       < ChildIndex(SubSeq(pj, 1, n - 1), pj[n])

\* An unfiltered search from the top: "Ab", its subtree down to "b", and
\* only then its sibling "q" with its own child.
C26_Witness ==
  /\ Searched
  /\ criteria.search_path = Top
  /\ Len(results) >= 8
  /\ \E i \in 1..Len(results) :
       /\ results[i].path = TAb
       /\ results[i + 1].path = TAbN
       /\ results[i + 2].path = TAbNK
       /\ results[i + 3].path = TAbNKa
       /\ results[i + 4].path = Append(TAbNKa, n_b)
  /\ results[Len(results) - 1].path = TQ
  /\ results[Len(results)].path = Append(TQ, n_b)

\* C27: with a content pattern, every file among the results can be read and
\* contains the pattern (letter case ignored unless case_sensitive); a file
\* that cannot be read never makes the search fail; directories are not
\* subject to the content test.
C27_ContentFilter ==
  (Searched /\ criteria.content_pattern # << >>) =>
    /\ last.ok
    /\ \A i \in 1..Len(results) :
         ~results[i].is_dir =>
           /\ ResultNode(i).content # None
           /\ IF criteria.case_sensitive
              THEN Contains(ResultNode(i).content[1], criteria.content_pattern)
              ELSE Contains(ToLowercase(ResultNode(i).content[1]),
                            ToLowercase(criteria.content_pattern))
    /\ \A d \in TreeDirs :
         \A e \in EntriesOf(d) :
           (e.is_dir /\ Walked(d) /\ Visible(e) /\ PassType(e)
              /\ PassName(e) /\ InBounds(e))
             => Reported(d, e)

\* A case-insensitive search for the content "aB" that reports the files
\* "ab" and "/q/b" and the directory "Ab" but not "B", which is not text.
C27_Witness ==
  /\ Searched
  /\ criteria.content_pattern = n_aB
  /\ ~criteria.case_sensitive
  /\ criteria.search_path = Top
  /\ last.info.unreadable = {}
  /\ Reported(Top, NodeAt(<<n_ab>>))
  /\ Reported(Top, NodeAt(<<n_Ab>>))
  /\ Reported(TQ, NodeAt(Append(TQ, n_b)))
  /\ ~Reported(Top, NodeAt(<<n_B>>))

\* C28: without include_hidden no result has a name that starts with "."
\* nor lies below such a directory; with include_hidden the hidden entries
\* and the entries below hidden directories are reported like any other.
C28_HiddenEntries ==
  Searched =>
    /\ ~criteria.include_hidden =>
         \A i \in 1..Len(results) :
           \A k \in (Len(criteria.search_path) + 1)..Len(results[i].path) :
             results[i].path[k][1] # 46
    /\ criteria.include_hidden =>
         \A d \in TreeDirs :
           \A e \in EntriesOf(d) :
             ( /\ Walked(d)
               /\ e.meta_ok
               /\ Passes(e)
               /\ \/ e.name[1] = 46
                  \/ \E k \in 1..Len(d) : d[k][1] = 46 )
               => Reported(d, e)

\* An unfiltered search from the top without include_hidden: nine results,
\* none of them ".b", ".h" or "/Ab/.h/ab".
C28_Witness ==
  /\ Searched
  /\ ~criteria.include_hidden
  /\ criteria.search_path = Top
  /\ last.info.unreadable = {}
  /\ Len(results) = 9
  /\ Reported(Top, NodeAt(<<n_Ab>>))
  /\ ~Reported(Top, NodeAt(<<DotB>>))
  /\ ~Reported(TAb, NodeAt(TAbH))

\* ---- diff ----

\* The distances at which the removed-side and the added-side check of the
\* look-ahead hold at the current position.
RemovedDistances ==
  { d \in 1..LookAhead :
      /\ left_idx + d < Len(left_lines)
      /\ left_lines[left_idx + d + 1] = right_lines[right_idx + 1] }

AddedDistances ==
  { d \in 1..LookAhead :
      /\ right_idx + d < Len(right_lines)
      /\ left_lines[left_idx + 1] = right_lines[right_idx + d + 1] }

Smallest(S) == CHOOSE d \in S : \A e \in S : d <= e

\* C29: when the two current lines differ and the look-ahead can resync,
\* the smallest distance d in 1..5 at which either check holds is taken; if
\* the removed-side check holds at d, d Removed lines (the next d left
\* lines) are emitted, the added-side check at the same distance
\* notwithstanding; otherwise d Added lines (the next d right lines).
C29_SmallestDistanceRemovedFirst ==
  [][( /\ left_idx < Len(left_lines)
       /\ right_idx < Len(right_lines)
       /\ left_lines[left_idx + 1] # right_lines[right_idx + 1]
       /\ RemovedDistances \cup AddedDistances # {} )
     =>
       LET d == Smallest(RemovedDistances \cup AddedDistances)
           n == Len(result)
       IN /\ Len(result') = n + d
          /\ SubSeq(result', 1, n) = result
          /\ IF d \in RemovedDistances
             THEN /\ left_idx' = left_idx + d
                  /\ right_idx' = right_idx
                  /\ \A k \in 1..d :
                       /\ result'[n + k].line_type = "Removed"
                       /\ result'[n + k].left_content = left_lines[left_idx + k]
             ELSE /\ right_idx' = right_idx + d
                  /\ left_idx' = left_idx
                  /\ \A k \in 1..d :
                       /\ result'[n + k].line_type = "Added"
                       /\ result'[n + k].right_content = right_lines[right_idx + k]
     ]_vars

\* [a,a,b] against [b,b,a]: nothing resyncs at distance 1, both checks hold
\* at distance 2, and two Removed lines were emitted.
C29_Witness ==
  /\ left_lines = <<n_a, n_a, n_b>>
  /\ right_lines = <<n_b, n_b, n_a>>
  /\ left_idx = 2
  /\ right_idx = 0
  /\ Len(result) = 2
  /\ result[1].line_type = "Removed"
  /\ result[2].line_type = "Removed"

\* compute_diff has returned.
DiffDone == left_idx >= Len(left_lines) /\ right_idx >= Len(right_lines)

\* l without its k-th line.
DeleteLine(l, k) == SubSeq(l, 1, k - 1) \o SubSeq(l, k + 1, Len(l))

LineTypes == [i \in 1..Len(result) |-> result[i].line_type]

\* C30: when the right file is the left file with one line deleted, the
\* diff is one Removed line among Equal lines, with no Modified and no
\* Added line, and the Equal lines are the right file; [a,b,c] against
\* [a,c] gives Equal, Removed, Equal.
C30_OneLineDeleted ==
  (DiffDone /\ \E k \in 1..Len(left_lines) : right_lines = DeleteLine(left_lines, k)) =>
    /\ Len(result) = Len(left_lines)
    /\ Cardinality({i \in 1..Len(result) : result[i].line_type = "Removed"}) = 1
    /\ \A i \in 1..Len(result) : result[i].line_type \in {"Equal", "Removed"}
    /\ \A i \in 1..Len(result) :
         result[i].line_type = "Equal" =>
           /\ result[i].left_content = result[i].right_content
           /\ result[i].right_content = right_lines[result[i].right_line_num[1]]
    /\ (left_lines = <<n_a, n_b, n_c>> /\ right_lines = <<n_a, n_c>>)
         => LineTypes = <<"Equal", "Removed", "Equal">>

\* The finished diff of [a,b,c] against [a,c].
C30_Witness ==
  /\ DiffDone
  /\ left_lines = <<n_a, n_b, n_c>>
  /\ right_lines = <<n_a, n_c>>
  /\ LineTypes = <<"Equal", "Removed", "Equal">>
  /\ result[2].left_content = n_b

\* C31: when the two current lines differ and neither check of the
\* look-ahead holds at any distance 1..5, one Modified line pairing the two
\* lines is emitted and both cursors advance by one; [a,b,c] against
\* [a,x,c] gives Equal, Modified, Equal, tallied as 2 equal, 1 modified,
\* 0 added and 0 removed.
C31_ModifiedWhenNoResync ==
  [][ /\ ( /\ left_idx < Len(left_lines)
           /\ right_idx < Len(right_lines)
           /\ left_lines[left_idx + 1] # right_lines[right_idx + 1]
           /\ RemovedDistances \cup AddedDistances = {} )
         =>
           /\ result' = Append(result,
                          [line_type |-> "Modified",
                           left_line_num |-> Some(left_idx + 1),
                           right_line_num |-> Some(right_idx + 1),
                           left_content |-> left_lines[left_idx + 1],
                           right_content |-> right_lines[right_idx + 1]])
           /\ left_idx' = left_idx + 1
           /\ right_idx' = right_idx + 1
      /\ ( /\ left_idx' >= Len(left_lines)
           /\ right_idx' >= Len(right_lines)
           /\ left_lines = <<n_a, n_b, n_c>>
           /\ right_lines = <<n_a, n_x, n_c>> )
         =>
           /\ [i \in 1..Len(result') |-> result'[i].line_type]
                = <<"Equal", "Modified", "Equal">>
           /\ Tally(result', "Equal") = 2
           /\ Tally(result', "Modified") = 1
           /\ Tally(result', "Added") = 0
           /\ Tally(result', "Removed") = 0
    ]_vars

\* The finished diff of [a,b,c] against [a,x,c].
C31_Witness ==
  /\ DiffDone
  /\ left_lines = <<n_a, n_b, n_c>>
  /\ right_lines = <<n_a, n_x, n_c>>
  /\ Len(result) = 3
  /\ result[2].line_type = "Modified"
  /\ result[2].left_content = n_b
  /\ result[2].right_content = n_x

IsLeftLine(dl) == dl.line_type \in {"Equal", "Removed", "Modified"}

IsRightLine(dl) == dl.line_type \in {"Equal", "Added", "Modified"}

\* C35: the finished diff is a faithful alignment: the left texts of its
\* Equal, Removed and Modified lines, in order, are the left file and carry
\* the line numbers 1, 2, 3, ...; the right texts of its Equal, Added and
\* Modified lines are the right file, numbered alike; the other side of an
\* Added or Removed line has no number.
C35_FaithfulAlignment ==
  DiffDone =>
    LET ls == SelectSeq(result, IsLeftLine)
        rs == SelectSeq(result, IsRightLine)
    IN /\ Len(ls) = Len(left_lines)
       /\ Len(rs) = Len(right_lines)
       /\ \A i \in 1..Len(ls) :
            /\ ls[i].left_content = left_lines[i]
            /\ ls[i].left_line_num = Some(i)
       /\ \A i \in 1..Len(rs) :
            /\ rs[i].right_content = right_lines[i]
            /\ rs[i].right_line_num = Some(i)
       /\ \A i \in 1..Len(result) :
            /\ ~IsLeftLine(result[i]) => result[i].left_line_num = None
            /\ ~IsRightLine(result[i]) => result[i].right_line_num = None

\* A finished diff that holds a run of two Removed lines from a resync as
\* well as Equal, Added and Modified lines.
C35_Witness ==
  /\ DiffDone
  /\ {result[i].line_type : i \in 1..Len(result)}
       = {"Equal", "Added", "Removed", "Modified"}
  /\ \E i \in 1..(Len(result) - 2) :
       /\ result[i].line_type = "Removed"
       /\ result[i + 1].line_type = "Removed"
       /\ result[i + 2].line_type = "Equal"

\* C40: compute_diff terminates: every iteration of its loop advances the
\* left cursor, the right cursor or both, neither ever passes the end of its
\* file, the diff never holds more than len(left) + len(right) lines, and
\* the loop is eventually done.
C40_DiffTerminates ==
  /\ [][ /\ left_idx' >= left_idx
         /\ right_idx' >= right_idx
         /\ left_idx' + right_idx' > left_idx + right_idx
         /\ left_idx' <= Len(left_lines)
         /\ right_idx' <= Len(right_lines)
         /\ Len(result') <= Len(left_lines) + Len(right_lines)
       ]_vars
  /\ <>[]DiffDone

\* A finished diff of two files without a common line that took as many
\* iterations as the longer file has lines.
C40_Witness ==
  /\ DiffDone
  /\ Len(left_lines) = 3
  /\ Len(right_lines) = 2
  /\ Len(result) = 3
  /\ result[1].line_type = "Modified"
  /\ result[3].line_type = "Removed"

\* The loop of compute_diff, step by step, ends with what ComputeDiff gives.
DiffLoopIsComputeDiff ==
  DiffDone => result = ComputeDiff(left_lines, right_lines)

\* A comparison has been made and gave a FileComparison.
Compared == comparison # None /\ comparison.ok

\* Both paths name regular files.
BothFiles == left_file.kind = "file" /\ right_file.kind = "file"

\* The number of lines of one kind in a list of diff lines.
LinesOfKind(diff_lines, type) ==
  Cardinality({ i \in 1..Len(diff_lines) : diff_lines[i].line_type = type })

\* C32: in every result of the line comparison each of the four counts is
\* the number of diff lines of its kind, and are_identical is true if and
\* only if no Added, Removed or Modified line was emitted.
C32_CountsMatchLines ==
  Compared =>
    LET c == comparison.value
    IN /\ c.left_only_lines = LinesOfKind(c.diff_lines, "Removed")
       /\ c.right_only_lines = LinesOfKind(c.diff_lines, "Added")
       /\ c.modified_lines = LinesOfKind(c.diff_lines, "Modified")
       /\ c.equal_lines = LinesOfKind(c.diff_lines, "Equal")
       /\ c.are_identical <=>
            \A i \in 1..Len(c.diff_lines) : c.diff_lines[i].line_type = "Equal"

\* "a\nb" compared with "a\na": one Equal and one Modified line, not
\* identical.
C32_Witness ==
  /\ Compared
  /\ left_file = RegularFile(<<97, LF, 98>>)
  /\ right_file = RegularFile(<<97, LF, 97>>)
  /\ Len(comparison.value.diff_lines) = 2
  /\ comparison.value.diff_lines[1].line_type = "Equal"
  /\ comparison.value.diff_lines[2].line_type = "Modified"
  /\ comparison.value.modified_lines = 1
  /\ comparison.value.equal_lines = 1
  /\ ~comparison.value.are_identical

\* C33: compare_files on two byte-identical files returns are_identical =
\* true with an empty list of diff lines and all four counts zero.
C33_ByteIdenticalShortCircuit ==
  (comparison # None /\ BothFiles /\ left_file.bytes = right_file.bytes) =>
    /\ comparison.ok
    /\ comparison.value.are_identical
    /\ comparison.value.diff_lines = << >>
    /\ comparison.value.left_only_lines = 0
    /\ comparison.value.right_only_lines = 0
    /\ comparison.value.modified_lines = 0
    /\ comparison.value.equal_lines = 0

\* "a\nb" compared with itself.
C33_Witness ==
  /\ Compared
  /\ left_file = RegularFile(<<97, LF, 98>>)
  /\ right_file = left_file
  /\ comparison.value.are_identical
  /\ comparison.value.diff_lines = << >>

\* C34: compare_files fails with the error "Cannot compare directories"
\* whenever either path is a directory, and gives no FileComparison.
C34_DirectoryIsDirectoryError ==
  (comparison # None /\ (left_file.kind = "dir" \/ right_file.kind = "dir")) =>
    /\ ~comparison.ok
    /\ comparison.error = "Cannot compare directories"

\* C37: compare_files reports are_identical = true only for two files with
\* the same bytes.
C37_IdenticalOnlyForSameBytes ==
  (Compared /\ BothFiles /\ comparison.value.are_identical) =>
    left_file.bytes = right_file.bytes

\* C36: every index held in selected_items is a valid index into items, in
\* every reachable state, also after refresh, navigate_to, navigate_back or
\* navigate_forward replaced items by a shorter listing.
C36_SelectionIndicesValid ==
  \A i \in 1..Len(selected_items) : selected_items[i] < Len(items)

\* C38: in every reachable state history is non-empty and history_index is
\* below history.len(), so history.len() - 1 in navigate_to cannot underflow
\* and history[history_index] in navigate_back and navigate_forward is in
\* bounds.
C38_HistoryIndexInBounds ==
  /\ Len(history) >= 1
  /\ history_index >= 0
  /\ history_index < Len(history)

\* A navigate_to that evicted the oldest entry of a full history.
C38_Witness ==
  /\ last.op = "navigate_to"
  /\ last.ok
  /\ last.evicted
  /\ Len(history) = HistoryLimit
  /\ history_index = HistoryLimit - 1

\* C39: history never holds the same path in two adjacent positions, after
\* any sequence of navigate_to, navigate_back and navigate_forward, also
\* when forward history was truncated or the oldest entry evicted.
C39_NoAdjacentDuplicates ==
  \A i \in 1..(Len(history) - 1) : history[i] # history[i + 1]

\* A navigate_to that truncated the forward history down to the very path
\* it was called with, and so pushed nothing.
C39_Witness ==
  /\ last.op = "navigate_to"
  /\ last.ok
  /\ last.dropped = 1
  /\ last.arg = DirA
  /\ history = <<Root, DirA>>
  /\ history_index = 1

====
